---- MODULE Spec2Model ----
(***************************************************************************)
(* Model of stork-asset-cli (src/src/main.rs): the generate-config command *)
(* (selection planning, config assembly, file write), the similarity       *)
(* search find_similar_assets and the identifier encoder                   *)
(* calculate_encoded_asset_id.                                             *)
(*                                                                         *)
(* A Rust String is a sequence of characters, each a one-character TLA+    *)
(* string.  Option<T> is a sequence of length at most one: None is <<>>    *)
(* and Some(x) is <<x>>.                                                   *)
(***************************************************************************)
EXTENDS Integers, Sequences, FiniteSets, TLC

VARIABLES
    command,            \* the subcommand main was started with
    pc,                 \* position of main inside the command
    output,             \* --output
    random,             \* --random, Option<usize>
    assets,             \* --assets, Option<String>
    fallback_period,    \* --fallback
    percent_change,     \* --percent, in tenths
    available_assets,   \* the fetched catalog, then the working set
    requested_assets,   \* the explicit list after split and trim
    examined,           \* how many explicit symbols the loop has looked at
    selected_assets,    \* the selection
    stdout,             \* what was printed, in order
    config_map,         \* Option<BTreeMap<String, AssetConfig>>
    written,            \* Option<file content> of the output path
    fetches,            \* calls of get_available_assets
    catalog,            \* Option<the catalog as fetched>
    fsa_pc,             \* position of a find_similar_assets call
    target,             \* find_similar_assets: target
    fsa_assets,         \* find_similar_assets: available_assets
    limit,              \* find_similar_assets: limit
    partial_matches,    \* find_similar_assets: the sorted (score, asset) pairs
    fsa_result,         \* find_similar_assets: the returned Vec
    arg_assets,         \* check-assets, get-encoded: the assets argument
    checked,            \* how many of its symbols the command's loop has done
    known,              \* Option<the catalog the command looks symbols up in>
    has_token,          \* whether load_config found a token
    failed,             \* check-assets: failed
    invalid_assets,     \* get-encoded: invalid_assets
    similar_calls,      \* the targets find_similar_assets was called with
    hasher              \* the keccak of the latest calculate_encoded_asset_id

gvars == <<pc, output, random, assets, fallback_period, percent_change,
           available_assets, requested_assets, examined, selected_assets,
           stdout, config_map, written, fetches, catalog>>
svars == <<fsa_pc, target, fsa_assets, limit, partial_matches, fsa_result>>
cvars == <<command, arg_assets, checked, known, has_token, failed,
           invalid_assets, similar_calls>>
vars == <<gvars, svars, cvars, hasher>>

----------------------------------------------------------------------------
(* Bounds of the model. *)
MaxCatalog == 3
MaxExplicit == 2
MaxRandom == 3

None == <<>>
Some(x) == <<x>>
IsSome(o) == Len(o) = 1
Unwrap(o) == o[1]

Min(a, b) == IF a < b THEN a ELSE b
Max(a, b) == IF a < b THEN b ELSE a
Range(s) == {s[i] : i \in 1..Len(s)}
SeqsUpTo(S, n) == UNION {[1..k -> S] : k \in 0..n}

----------------------------------------------------------------------------
(* Strings. *)

\* char::is_whitespace, on the characters of the model
IsWhitespace(c) == c = " "

RECURSIVE TrimStart(_)
TrimStart(s) ==
    IF s # <<>> /\ IsWhitespace(Head(s)) THEN TrimStart(Tail(s)) ELSE s

RECURSIVE TrimEnd(_)
TrimEnd(s) ==
    IF s # <<>> /\ IsWhitespace(s[Len(s)])
    THEN TrimEnd(SubSeq(s, 1, Len(s) - 1))
    ELSE s

\* str::trim
Trim(s) == TrimEnd(TrimStart(s))

\* str::split(','): the pieces between the commas, empty pieces included;
\* a string without a comma is one piece
RECURSIVE SplitFrom(_, _, _)
SplitFrom(s, i, piece) ==
    IF i > Len(s) THEN <<piece>>
    ELSE IF s[i] = "," THEN <<piece>> \o SplitFrom(s, i + 1, <<>>)
    ELSE SplitFrom(s, i + 1, Append(piece, s[i]))
Split(s) == SplitFrom(s, 1, <<>>)

\* what the shell hands to --assets: the items joined with commas
RECURSIVE Join(_)
Join(items) ==
    IF Len(items) = 0 THEN <<>>
    ELSE IF Len(items) = 1 THEN items[1]
    ELSE items[1] \o <<",">> \o Join(Tail(items))

\* Vec::contains
Contains(v, x) == \E i \in 1..Len(v) : v[i] = x

\* Iterator::position: the first index holding x (0: None)
Position(v, x) ==
    IF Contains(v, x)
    THEN CHOOSE i \in 1..Len(v) : v[i] = x /\ \A j \in 1..(i - 1) : v[j] # x
    ELSE 0

\* swap_remove forgotten: the working set keeps the selected symbol
SwapRemoveKeeps(v, pos) == v

\* Vec::swap_remove: the last element takes the place of the removed one
SwapRemove(v, pos) ==
    [i \in 1..(Len(v) - 1) |-> IF i = pos THEN v[Len(v)] ELSE v[i]]

----------------------------------------------------------------------------
(* calculate_encoded_asset_id *)

\* str::as_bytes: the UTF-8 bytes of each character of the model
Utf8(c) ==
    CASE c = "A" -> <<65>>
      [] c = "B" -> <<66>>
      [] c = "C" -> <<67>>
      [] c = "Z" -> <<90>>
      [] c = "b" -> <<98>>
      [] c = " " -> <<32>>
      [] c = "," -> <<44>>
      [] c = "é" -> <<195, 169>>
      [] c = "É" -> <<195, 137>>

RECURSIVE AsBytes(_)
AsBytes(s) == IF s = <<>> THEN <<>> ELSE Utf8(Head(s)) \o AsBytes(Tail(s))

\* str::len: the length in bytes
ByteLen(s) == Len(AsBytes(s))

DigestLen == 32

\* Keccak::v256(): a fresh hashing context
KeccakV256 == [k \in 1..DigestLen |-> 0]

\* Keccak::update.  The Keccak-f permutation of the tiny_keccak crate is
\* outside this program; a byte-wise mixing function of the same shape
\* (context and input bytes in, context out) stands for it.
RECURSIVE KeccakUpdate(_, _)
KeccakUpdate(st, bytes) ==
    IF bytes = <<>> THEN st
    ELSE KeccakUpdate(
             [k \in 1..DigestLen |->
                 (st[k] * 31 + Head(bytes) * k + st[(k % DigestLen) + 1] + 7) % 256],
             Tail(bytes))

\* Keccak::finalize: the 32 output bytes
KeccakFinalize(st) == [k \in 1..DigestLen |-> (st[k] + 13 * k) % 256]

HexChars == <<"0", "1", "2", "3", "4", "5", "6", "7",
              "8", "9", "a", "b", "c", "d", "e", "f">>

\* hex::encode: two lowercase digits per byte, high nibble first
RECURSIVE HexEncode(_)
HexEncode(bytes) ==
    IF bytes = <<>> THEN <<>>
    ELSE <<HexChars[(Head(bytes) \div 16) + 1], HexChars[(Head(bytes) % 16) + 1]>>
         \o HexEncode(Tail(bytes))

calculate_encoded_asset_id(asset_id) ==
    LET keccak == KeccakV256
        out    == KeccakFinalize(KeccakUpdate(keccak, AsBytes(asset_id)))
    IN  <<"0", "x">> \o HexEncode(out)

----------------------------------------------------------------------------
(* BTreeMap<String, AssetConfig>: the entries in ascending key order. *)

\* Ord for String: lexicographic on the bytes
RECURSIVE BytesLess(_, _)
BytesLess(a, b) ==
    IF b = <<>> THEN FALSE
    ELSE IF a = <<>> THEN TRUE
    ELSE IF Head(a) # Head(b) THEN Head(a) < Head(b)
    ELSE BytesLess(Tail(a), Tail(b))
StrLess(a, b) == BytesLess(AsBytes(a), AsBytes(b))

\* a map that keeps insertion order: a new key goes to the end
RECURSIVE InsertAtEnd(_, _, _)
InsertAtEnd(m, k, v) ==
    IF m = <<>> THEN <<[key |-> k, value |-> v]>>
    ELSE IF Head(m).key = k THEN <<[key |-> k, value |-> v]>> \o Tail(m)
    ELSE <<Head(m)>> \o InsertAtEnd(Tail(m), k, v)

\* BTreeMap::insert: replaces the value of an equal key, else inserts in order
RECURSIVE BTreeInsert(_, _, _)
BTreeInsert(m, k, v) ==
    IF m = <<>> THEN <<[key |-> k, value |-> v]>>
    ELSE IF Head(m).key = k THEN <<[key |-> k, value |-> v]>> \o Tail(m)
    ELSE IF StrLess(k, Head(m).key) THEN <<[key |-> k, value |-> v]>> \o m
    ELSE <<Head(m)>> \o BTreeInsert(Tail(m), k, v)

\* an entry that takes the default fallback period, not the caller's
AssetConfigDefaultFallback(asset_id, fallback, percent) ==
    [asset_id |-> asset_id,
     fallback_period_sec |-> 60,
     percent_change_threshold |-> percent,
     encoded_asset_id |-> calculate_encoded_asset_id(asset_id)]

AssetConfig(asset_id, fallback, percent) ==
    [asset_id |-> asset_id,
     fallback_period_sec |-> fallback,
     percent_change_threshold |-> percent,
     encoded_asset_id |-> calculate_encoded_asset_id(asset_id)]

\* the loop that fills config_map from selected_assets
RECURSIVE BuildConfigMap(_, _, _, _)
BuildConfigMap(m, selected, fallback, percent) ==
    IF selected = <<>> THEN m
    ELSE BuildConfigMap(
             BTreeInsert(m, Head(selected), AssetConfig(Head(selected), fallback, percent)),
             Tail(selected), fallback, percent)

----------------------------------------------------------------------------
(* Commands::GenerateConfig *)

\* the inputs of the model
AssetNames == {<<"A">>, <<"B">>, <<"C">>}
Catalogs == SeqsUpTo(AssetNames, MaxCatalog)
RawItems == {<<"A">>, <<" ", "B">>, <<"Z">>}
AssetLists ==
    {Join(items) : items \in SeqsUpTo(RawItems, MaxExplicit) \ {<<>>}}
Outputs ==
    {[path |-> "out.yaml", lower_ext |-> ".yaml", parent_exists |-> TRUE],
     [path |-> "out.txt", lower_ext |-> ".txt", parent_exists |-> TRUE],
     [path |-> "missing/out.yml", lower_ext |-> ".yml", parent_exists |-> FALSE]}
Scalars == {<<60, 10>>, <<30, 25>>}

Println(msg) == stdout' = Append(stdout, msg)

validate_output_path(path) ==
    IF path.lower_ext # ".yaml" /\ path.lower_ext # ".yml"
    THEN Some("Output file must have .yaml or .yml extension")
    ELSE IF ~path.parent_exists
    THEN Some("Output directory does not exist")
    ELSE None

\* asset_list.split(',').map(|s| s.trim().to_string()).collect()
RequestedAssets(asset_list) ==
    LET pieces == Split(asset_list)
    IN  [i \in 1..Len(pieces) |-> Trim(pieces[i])]

\* the injective index sequences of length k into a Vec of length n
InjectiveSeqs(n, k) ==
    {p \in [1..k -> 1..n] : \A i, j \in 1..k : i # j => p[i] # p[j]}

\* a draw with replacement: positions may repeat
ChooseWithReplacement(v, amount) ==
    {[i \in 1..amount |-> v[p[i]]] : p \in [1..amount -> 1..Len(v)]}

\* SliceRandom::choose_multiple: amount elements at distinct positions,
\* in any order
ChooseMultiple(v, amount) ==
    {[i \in 1..amount |-> v[p[i]]] : p \in InjectiveSeqs(Len(v), amount)}

GInit ==
    /\ pc = "validate_output_path"
    /\ output \in Outputs
    /\ random \in {None} \cup {Some(n) : n \in 0..MaxRandom}
    /\ assets \in {None} \cup {Some(l) : l \in AssetLists}
    /\ \E sc \in Scalars : fallback_period = sc[1] /\ percent_change = sc[2]
    /\ available_assets = <<>>
    /\ requested_assets = <<>>
    /\ examined = 0
    /\ selected_assets = <<>>
    /\ stdout = <<>>
    /\ config_map = None
    /\ written = None
    /\ fetches = 0
    /\ catalog = None

\* the other commands' variables at rest
CIdle ==
    /\ arg_assets = <<>>
    /\ checked = 0
    /\ known = None
    /\ has_token = FALSE
    /\ failed = FALSE
    /\ invalid_assets = <<>>
    /\ similar_calls = <<>>
    /\ hasher = None

SIdle ==
    /\ fsa_pc = "idle"
    /\ target = <<>>
    /\ fsa_assets = <<>>
    /\ limit = 0
    /\ partial_matches = <<>>
    /\ fsa_result = <<>>

\* lines 539-542
ValidateOutputPath ==
    /\ pc = "validate_output_path"
    /\ UNCHANGED <<svars, cvars, hasher>>
    /\ LET e == validate_output_path(output)
       IN  IF IsSome(e)
           THEN /\ Println([kind |-> "Error", text |-> Unwrap(e)])
                /\ pc' = "done"
           ELSE /\ pc' = "load_config"
                /\ UNCHANGED stdout
    /\ UNCHANGED <<output, random, assets, fallback_period, percent_change,
                   available_assets, requested_assets, examined, selected_assets,
                   config_map, written, fetches, catalog>>

\* lines 544-546 and 620: the stored token is there or not
LoadConfig ==
    /\ pc = "load_config"
    /\ UNCHANGED <<svars, cvars, hasher>>
    /\ \E auth_token \in {None, Some("token")} :
          IF IsSome(auth_token)
          THEN /\ pc' = "get_available_assets"
               /\ UNCHANGED stdout
          ELSE /\ Println([kind |-> "NoToken"])
               /\ pc' = "done"
    /\ UNCHANGED <<output, random, assets, fallback_period, percent_change,
                   available_assets, requested_assets, examined, selected_assets,
                   config_map, written, fetches, catalog>>

\* GetAvailableAssets that reports the error and goes on with an empty
\* catalog
GetAvailableAssetsGoesOn ==
    /\ pc = "get_available_assets"
    /\ UNCHANGED <<svars, cvars, hasher>>
    /\ fetches' = fetches + 1
    /\ \E r \in {[outcome |-> o, value |-> <<>>] : o \in {"err", "body"}}
                \cup {[outcome |-> "ok", value |-> c] : c \in Catalogs} :
          CASE r.outcome = "ok" ->
                 /\ available_assets' = r.value
                 /\ catalog' = Some(r.value)
                 /\ selected_assets' = <<>>
                 /\ IF IsSome(assets)
                    THEN /\ requested_assets' = RequestedAssets(Unwrap(assets))
                         /\ pc' = "explicit"
                    ELSE /\ requested_assets' = <<>>
                         /\ pc' = "random"
                 /\ UNCHANGED stdout
            [] r.outcome = "err" ->
                 /\ Println([kind |-> "Error", text |-> "fetch"])
                 /\ available_assets' = <<>>
                 /\ selected_assets' = <<>>
                 /\ requested_assets' = <<>>
                 /\ pc' = "random"
                 /\ UNCHANGED catalog
            [] r.outcome = "body" ->
                 /\ pc' = "panicked"
                 /\ UNCHANGED <<available_assets, catalog, selected_assets,
                                requested_assets, stdout>>
    /\ UNCHANGED <<output, random, assets, fallback_period, percent_change,
                   examined, config_map, written>>

\* lines 547-555 and 617: the one call of get_available_assets, which
\* returns the catalog or an error, or panics on a body that is no JSON; on
\* Ok the explicit list, when given, is split and trimmed
GetAvailableAssets ==
    /\ pc = "get_available_assets"
    /\ UNCHANGED <<svars, cvars, hasher>>
    /\ fetches' = fetches + 1
    /\ \E r \in {[outcome |-> o, value |-> <<>>] : o \in {"err", "body"}}
                \cup {[outcome |-> "ok", value |-> c] : c \in Catalogs} :
          CASE r.outcome = "ok" ->
                 /\ available_assets' = r.value
                 /\ catalog' = Some(r.value)
                 /\ selected_assets' = <<>>
                 /\ IF IsSome(assets)
                    THEN /\ requested_assets' = RequestedAssets(Unwrap(assets))
                         /\ pc' = "explicit"
                    ELSE /\ requested_assets' = <<>>
                         /\ pc' = "random"
                 /\ UNCHANGED stdout
            [] r.outcome = "err" ->
                 /\ Println([kind |-> "Error", text |-> "fetch"])
                 /\ pc' = "done"
                 /\ UNCHANGED <<available_assets, catalog, selected_assets,
                                requested_assets>>
            [] r.outcome = "body" ->
                 /\ pc' = "panicked"
                 /\ UNCHANGED <<available_assets, catalog, selected_assets,
                                requested_assets, stdout>>
    /\ UNCHANGED <<output, random, assets, fallback_period, percent_change,
                   examined, config_map, written>>

\* ExplicitStep without the return after the error message: the loop goes on
ExplicitStepNoReturn ==
    /\ pc = "explicit"
    /\ UNCHANGED <<svars, cvars, hasher>>
    /\ IF examined = Len(requested_assets)
       THEN /\ pc' = "random"
            /\ UNCHANGED <<examined, available_assets, selected_assets, stdout>>
       ELSE LET asset == requested_assets[examined + 1]
            IN  /\ examined' = examined + 1
                /\ pc' = "explicit"
                /\ IF ~Contains(available_assets, asset)
                   THEN /\ Println([kind |-> "UnknownAsset", asset |-> asset])
                        /\ UNCHANGED <<available_assets, selected_assets>>
                   ELSE /\ selected_assets' = Append(selected_assets, asset)
                        /\ available_assets' =
                               SwapRemove(available_assets,
                                          Position(available_assets, asset))
                        /\ UNCHANGED stdout
    /\ UNCHANGED <<output, random, assets, fallback_period, percent_change,
                   requested_assets, config_map, written, fetches, catalog>>

\* lines 558-568: one turn of the loop over requested_assets, or its end
ExplicitStep ==
    /\ pc = "explicit"
    /\ UNCHANGED <<svars, cvars, hasher>>
    /\ IF examined = Len(requested_assets)
       THEN /\ pc' = "random"
            /\ UNCHANGED <<examined, available_assets, selected_assets, stdout>>
       ELSE LET asset == requested_assets[examined + 1]
            IN  /\ examined' = examined + 1
                /\ IF ~Contains(available_assets, asset)
                   THEN /\ Println([kind |-> "UnknownAsset", asset |-> asset])
                        /\ pc' = "done"
                        /\ UNCHANGED <<available_assets, selected_assets>>
                   ELSE /\ selected_assets' = Append(selected_assets, asset)
                        /\ available_assets' =
                               SwapRemove(available_assets,
                                          Position(available_assets, asset))
                        /\ pc' = "explicit"
                        /\ UNCHANGED stdout
    /\ UNCHANGED <<output, random, assets, fallback_period, percent_change,
                   requested_assets, config_map, written, fetches, catalog>>

\* lines 572-585
RandomFill ==
    /\ pc = "random"
    /\ UNCHANGED <<svars, cvars, hasher>>
    /\ IF IsSome(random) /\ Unwrap(random) > 0
       THEN LET n == Unwrap(random)
            IN  /\ IF n > Len(available_assets)
                   THEN Println([kind |-> "InsufficientRandomPool",
                                 requested |-> n,
                                 available |-> Len(available_assets)])
                   ELSE UNCHANGED stdout
                /\ \E chosen \in ChooseMultiple(available_assets,
                                                Min(n, Len(available_assets))) :
                      selected_assets' = selected_assets \o chosen
       ELSE UNCHANGED <<selected_assets, stdout>>
    /\ pc' = "empty_check"
    /\ UNCHANGED <<output, random, assets, fallback_period, percent_change,
                   available_assets, requested_assets, examined,
                   config_map, written, fetches, catalog>>

\* EmptyCheck without the return after the error message
EmptyCheckNoReturn ==
    /\ pc = "empty_check"
    /\ UNCHANGED <<svars, cvars, hasher>>
    /\ IF selected_assets = <<>>
       THEN Println([kind |-> "NoAssetsSelected"])
       ELSE UNCHANGED stdout
    /\ pc' = "assemble"
    /\ UNCHANGED <<output, random, assets, fallback_period, percent_change,
                   available_assets, requested_assets, examined, selected_assets,
                   config_map, written, fetches, catalog>>

\* lines 587-590
EmptyCheck ==
    /\ pc = "empty_check"
    /\ UNCHANGED <<svars, cvars, hasher>>
    /\ IF selected_assets = <<>>
       THEN /\ Println([kind |-> "NoAssetsSelected"])
            /\ pc' = "done"
       ELSE /\ pc' = "assemble"
            /\ UNCHANGED stdout
    /\ UNCHANGED <<output, random, assets, fallback_period, percent_change,
                   available_assets, requested_assets, examined, selected_assets,
                   config_map, written, fetches, catalog>>

\* lines 592-606
Assemble ==
    /\ pc = "assemble"
    /\ UNCHANGED <<svars, cvars>>
    /\ hasher' = Some(KeccakUpdate(KeccakV256, AsBytes(selected_assets[Len(selected_assets)])))
    /\ config_map' = Some(BuildConfigMap(<<>>, selected_assets,
                                         fallback_period, percent_change))
    /\ pc' = "write"
    /\ UNCHANGED <<output, random, assets, fallback_period, percent_change,
                   available_assets, requested_assets, examined, selected_assets,
                   stdout, written, fetches, catalog>>

\* lines 608-615: the write succeeds or fails; the last line is printed
\* either way
WriteAndReport ==
    /\ pc = "write"
    /\ UNCHANGED <<svars, cvars, hasher>>
    /\ \E write_ok \in BOOLEAN :
          LET success == [kind |-> "Success",
                          count |-> Len(Unwrap(config_map)),
                          path |-> output.path]
          IN  IF write_ok
              THEN /\ written' = Some([assets |-> Unwrap(config_map)])
                   /\ Println(success)
              ELSE /\ UNCHANGED written
                   /\ stdout' = stdout \o <<[kind |-> "ErrorWritingFile"], success>>
    /\ pc' = "done"
    /\ UNCHANGED <<output, random, assets, fallback_period, percent_change,
                   available_assets, requested_assets, examined, selected_assets,
                   config_map, fetches, catalog>>

----------------------------------------------------------------------------
(* Properties of Commands::GenerateConfig *)

Count(v, x) == Cardinality({i \in 1..Len(v) : v[i] = x})
Printed(kind) == \E i \in 1..Len(stdout) : stdout[i].kind = kind
NoDuplicates(v) == \A i, j \in 1..Len(v) : i # j => v[i] # v[j]
Prefix(v, n) == SubSeq(v, 1, n)

\* planning returned a selection: main is at or past the assembly
PlanSucceeded ==
    pc \in {"assemble", "write"} \/ (pc = "done" /\ IsSome(config_map))

\* the random fill is over
RandomFillDone ==
    \/ pc \in {"empty_check", "assemble", "write"}
    \/ pc = "done" /\ (IsSome(config_map) \/ Printed("NoAssetsSelected"))

\* The explicit symbol at position k is absent from the working set at its
\* turn: the catalog holds it no more often than the list named it before.
AbsentAt(cat, req, k) == Count(cat, req[k]) <= Count(Prefix(req, k - 1), req[k])
\* the first such position, 0 when there is none
FirstAbsent(cat, req) ==
    IF \E k \in 1..Len(req) : AbsentAt(cat, req, k)
    THEN CHOOSE k \in 1..Len(req) :
             AbsentAt(cat, req, k) /\ \A j \in 1..(k - 1) : ~AbsentAt(cat, req, j)
    ELSE 0

RandomCount == IF IsSome(random) THEN Unwrap(random) ELSE 0
\* the part of the selection the random fill appended
Appended == SubSeq(selected_assets, Len(requested_assets) + 1, Len(selected_assets))

\* C1: when some explicit symbol is absent from the working set at its turn,
\* the run never looks past the first such symbol, selects only the symbols
\* before it (no random draw), never assembles or writes a config, and ends
\* with the UnknownAsset message for exactly that symbol as its only output.
C1_FailFast ==
    (IsSome(catalog) /\ FirstAbsent(Unwrap(catalog), requested_assets) > 0) =>
        LET k == FirstAbsent(Unwrap(catalog), requested_assets)
        IN  /\ pc \in {"explicit", "done"}
            /\ examined <= k
            /\ selected_assets = Prefix(requested_assets, Min(examined, k - 1))
            /\ config_map = None
            /\ written = None
            /\ pc = "explicit" => (examined < k /\ stdout = <<>>)
            /\ pc = "done" =>
                  /\ examined = k
                  /\ stdout = <<[kind |-> "UnknownAsset", asset |-> requested_assets[k]]>>

\* C1 witness: the run failed at an absent explicit symbol while a later
\* explicit symbol, a random count and a non-empty working set were waiting
C1_Witness ==
    /\ pc = "done"
    /\ Printed("UnknownAsset")
    /\ Len(requested_assets) > examined
    /\ IsSome(random) /\ Unwrap(random) > 0
    /\ Len(available_assets) > 0

\* C2 (as claimed): whenever planning succeeds, the selection holds no
\* symbol twice.
C2_SelectionDuplicateFree ==
    PlanSucceeded => NoDuplicates(selected_assets)

\* C3: whenever planning succeeds, the selection is as long as the explicit
\* list plus the smaller of the random count (0 when absent) and what the
\* catalog holds beyond the explicit symbols.
C3_SelectionLength ==
    PlanSucceeded =>
        LET explicit_count == Len(requested_assets)
            remaining == Len(Unwrap(catalog)) - explicit_count
        IN  Len(selected_assets) = explicit_count + Min(RandomCount, remaining)

\* C3 witness: catalog of three, one explicit symbol, random 2, written out
C3_Witness ==
    /\ pc = "done"
    /\ IsSome(written)
    /\ Len(Unwrap(catalog)) = 3
    /\ Len(requested_assets) = 1
    /\ random = Some(2)
    /\ Len(selected_assets) = 3

\* the least position of the explicit list that repeats an earlier symbol
SecondOccurrence(req) ==
    CHOOSE k \in 1..Len(req) :
        /\ \E j \in 1..(k - 1) : req[j] = req[k]
        /\ \A m \in 1..(k - 1) : \A j \in 1..(m - 1) : req[j] # req[m]

\* C4 (as claimed): an explicit list that names a symbol twice never gets
\* past the second occurrence: the run ends there, or earlier, with
\* UnknownAsset, whatever the catalog.
C4_RepeatedSymbolFails ==
    (IsSome(catalog) /\ ~NoDuplicates(requested_assets)) =>
        /\ pc \in {"explicit", "done"}
        /\ examined <= SecondOccurrence(requested_assets)
        /\ pc = "done" => Printed("UnknownAsset")

\* C5: after a random fill with a count n > 0 over a working set of size r:
\* if n > r, one InsufficientRandomPool warning was printed, the appended
\* part is the whole working set (as a bag), and a non-empty selection goes
\* on to the assembly; if n <= r, no warning was printed and the appended
\* part has n entries taken from distinct positions of the working set.
C5_RandomFill ==
    (RandomFillDone /\ RandomCount > 0) =>
        LET n == RandomCount
            r == Len(available_assets)
            warning == [kind |-> "InsufficientRandomPool",
                        requested |-> n, available |-> r]
        IN  IF n > r
            THEN /\ Count(stdout, warning) = 1
                 /\ Len(Appended) = r
                 /\ \A x \in Range(available_assets) :
                        Count(Appended, x) = Count(available_assets, x)
                 /\ selected_assets # <<>> =>
                        (~Printed("NoAssetsSelected") /\ (pc = "done" => IsSome(config_map)))
            ELSE /\ ~Printed("InsufficientRandomPool")
                 /\ Len(Appended) = n
                 /\ \A x \in Range(Appended) :
                        Count(Appended, x) <= Count(available_assets, x)

\* C5 witness: random 3 over a catalog of two, both appended after the
\* warning, and the config written
C5_Witness ==
    /\ pc = "done"
    /\ IsSome(written)
    /\ random = Some(3)
    /\ assets = None
    /\ Len(Unwrap(catalog)) = 2
    /\ Printed("InsufficientRandomPool")
    /\ Len(selected_assets) = 2

\* C6: with no explicit list and nothing for the random fill to add (no
\* count, a count of 0, or an empty catalog), the run ends with the
\* NoAssetsSelected message as its last output, reports no success, and no
\* config is assembled or written; and no config is ever assembled from an
\* empty selection.
C6_NoAssetsSelected ==
    /\ (IsSome(catalog) /\ assets = None
            /\ (RandomCount = 0 \/ Unwrap(catalog) = <<>>)) =>
          /\ pc \in {"random", "empty_check", "done"}
          /\ selected_assets = <<>>
          /\ config_map = None
          /\ written = None
          /\ pc = "done" =>
                /\ stdout # <<>>
                /\ stdout[Len(stdout)] = [kind |-> "NoAssetsSelected"]
                /\ ~Printed("Success")
    /\ (pc \in {"assemble", "write"} \/ IsSome(config_map) \/ IsSome(written)) =>
          selected_assets # <<>>

\* C6 witness: a random count over an empty catalog ended in NoAssetsSelected
C6_Witness ==
    /\ pc = "done"
    /\ Printed("NoAssetsSelected")
    /\ RandomCount > 0
    /\ catalog = Some(<<>>)

----------------------------------------------------------------------------
(* find_similar_assets: strings *)

\* char::to_uppercase, on the characters of the model
ToUpperChar(c) ==
    CASE c = "b" -> <<"B">>
      [] c = "é" -> <<"É">>
      [] OTHER -> <<c>>

\* str::to_uppercase
RECURSIVE to_uppercase(_)
to_uppercase(s) ==
    IF s = <<>> THEN <<>> ELSE ToUpperChar(Head(s)) \o to_uppercase(Tail(s))

\* str::starts_with
StartsWith(s, pat) == Len(pat) <= Len(s) /\ SubSeq(s, 1, Len(pat)) = pat

\* str::ends_with
EndsWith(s, pat) ==
    Len(pat) <= Len(s) /\ SubSeq(s, Len(s) - Len(pat) + 1, Len(s)) = pat

\* str::contains
StrContains(s, pat) ==
    \E i \in 0..(Len(s) - Len(pat)) : SubSeq(s, i + 1, i + Len(pat)) = pat

\* &s[..s.len() - 1] of a non-empty s: the slice ends one byte before the
\* end, which is a character boundary only when the last character is one
\* byte long; otherwise the slice panics
SliceOffLastByte(s) ==
    [panics |-> Len(Utf8(s[Len(s)])) > 1,
     value  |-> SubSeq(s, 1, Len(s) - 1)]

----------------------------------------------------------------------------
(* strsim::jaro_winkler, in exact arithmetic: a score is a whole number of  *)
(* 1/ScoreUnit, so that every quotient of the metric is exact.              *)

MaxQueryLen == 3
SuggestChars == {"A", "b", "é"}
Queries == SeqsUpTo(SuggestChars, MaxQueryLen)
SuggestEntries ==
    {<<>>, <<"A">>, <<"b">>, <<"A", "B">>, <<"é", "A">>}

RECURSIVE Gcd(_, _)
Gcd(a, b) == IF b = 0 THEN a ELSE Gcd(b, a % b)
RECURSIVE LcmUpTo(_)
LcmUpTo(n) == IF n <= 1 THEN 1 ELSE (LcmUpTo(n - 1) * n) \div Gcd(LcmUpTo(n - 1), n)

MaxChars ==
    LET lens == {Len(e) : e \in SuggestEntries} \cup {MaxQueryLen}
    IN  CHOOSE m \in lens : \A l \in lens : l <= m
LenLcm == LcmUpTo(MaxChars)
\* 1.0 in score units
ScoreUnit == 30 * LenLcm
Tenths(k) == (k * ScoreUnit) \div 10

\* the matching pass of jaro: each character of a, in order, takes the
\* first unflagged equal character of b inside the search window
RECURSIVE JaroFlags(_, _, _, _, _)
JaroFlags(a, b, i, a_flags, b_flags) ==
    IF i > Len(a) THEN [a |-> a_flags, b |-> b_flags]
    ELSE LET half == Max(Len(a), Len(b)) \div 2
             search_range == IF half = 0 THEN 0 ELSE half - 1
             lo == Max(1, i - search_range)
             hi == Min(Len(b), i + search_range)
             free == {j \in lo..hi : b[j] = a[i] /\ j \notin b_flags}
         IN  IF free = {} THEN JaroFlags(a, b, i + 1, a_flags, b_flags)
             ELSE LET j == CHOOSE x \in free : \A y \in free : x <= y
                  IN  JaroFlags(a, b, i + 1, a_flags \cup {i}, b_flags \cup {j})

\* the flagged characters of s, in order
RECURSIVE Flagged(_, _, _)
Flagged(s, flags, i) ==
    IF i > Len(s) THEN <<>>
    ELSE (IF i \in flags THEN <<s[i]>> ELSE <<>>) \o Flagged(s, flags, i + 1)

\* jaro, times 3 * LenLcm
Jaro3(a, b) ==
    IF Len(a) = 0 /\ Len(b) = 0 THEN 3 * LenLcm
    ELSE IF Len(a) = 0 \/ Len(b) = 0 THEN 0
    ELSE LET f == JaroFlags(a, b, 1, {}, {})
             matches == Cardinality(f.a)
             ma == Flagged(a, f.a, 1)
             mb == Flagged(b, f.b, 1)
             transpositions ==
                 Cardinality({k \in 1..matches : ma[k] # mb[k]}) \div 2
         IN  IF matches = 0 THEN 0
             ELSE (matches * LenLcm) \div Len(a)
                  + (matches * LenLcm) \div Len(b)
                  + ((matches - transpositions) * LenLcm) \div matches

RECURSIVE CommonPrefix(_, _)
CommonPrefix(a, b) ==
    IF a = <<>> \/ b = <<>> \/ Head(a) # Head(b) THEN 0
    ELSE 1 + CommonPrefix(Tail(a), Tail(b))

\* jaro_winkler in score units: above 0.7 the common prefix (at most 4
\* characters) adds 0.1 * prefix * (1 - jaro)
jaro_winkler(a, b) ==
    LET sim3 == Jaro3(a, b)
        prefix == Min(4, CommonPrefix(a, b))
    IN  IF 10 * sim3 > 7 * 3 * LenLcm
        THEN 10 * sim3 + prefix * (3 * LenLcm - sim3)
        ELSE 10 * sim3

----------------------------------------------------------------------------
(* find_similar_assets *)

HARD_LIMIT == 10

\* Iterator::take without the cap
TakeAll(v, n) == v

\* Iterator::take
Take(v, n) == SubSeq(v, 1, Min(n, Len(v)))

\* the filter of line 200 with the entry left as it is (case-sensitive)
MatchesTargetCaseSensitive(asset, target_upper) == StrContains(asset, target_upper)

\* line 200: asset.to_uppercase().contains(&target)
MatchesTarget(asset, target_upper) == StrContains(to_uppercase(asset), target_upper)

\* Iterator::filter over the catalog, order kept
RECURSIVE FilterAssets(_, _, _)
FilterAssets(v, target_upper, keep) ==
    IF v = <<>> THEN <<>>
    ELSE (IF MatchesTarget(Head(v), target_upper) = keep THEN <<Head(v)>> ELSE <<>>)
         \o FilterAssets(Tail(v), target_upper, keep)

\* the +0.1 of line 228 left out
PartialWordBoostNone(target_upper, asset_upper) == 0

\* lines 227-229; evaluated only when the slice does not panic
PartialWordBoost(target_upper, asset_upper) ==
    IF ByteLen(target_upper) >= 3
       /\ StrContains(asset_upper, SliceOffLastByte(target_upper).value)
    THEN Tenths(1)
    ELSE 0

\* lines 220-224
PrefixSuffixBoost(target_upper, asset_upper) ==
    IF StartsWith(asset_upper, target_upper) THEN Tenths(3)
    ELSE IF EndsWith(asset_upper, target_upper) THEN Tenths(2)
    ELSE 0

\* lines 215-232: the closure of map, for one asset
ScoreAsset(target_upper, asset) ==
    LET asset_upper == to_uppercase(asset)
    IN  <<jaro_winkler(target_upper, asset_upper)
              + PrefixSuffixBoost(target_upper, asset_upper)
              + PartialWordBoost(target_upper, asset_upper),
          asset>>

\* line 227: the closure panics when the slice is taken (len >= 3) and its
\* end is no character boundary
ScorePanics(target_upper) ==
    ByteLen(target_upper) >= 3 /\ SliceOffLastByte(target_upper).panics

\* an insertion that puts the new pair before the pairs of equal score
InsertBeforeEqual(sorted, pair) ==
    LET before == {i \in 1..Len(sorted) : sorted[i][1] > pair[1]}
        n == Cardinality(before)
    IN  SubSeq(sorted, 1, n) \o <<pair>> \o SubSeq(sorted, n + 1, Len(sorted))

\* one step of the stable sort of line 236: the new pair goes after every
\* pair whose score is at least its own
InsertStable(sorted, pair) ==
    LET before == {i \in 1..Len(sorted) : sorted[i][1] >= pair[1]}
        n == Cardinality(before)
    IN  SubSeq(sorted, 1, n) \o <<pair>> \o SubSeq(sorted, n + 1, Len(sorted))

\* line 236: sort_by(|a, b| b.0.partial_cmp(&a.0).unwrap()), stable, descending
RECURSIVE SortByScore(_, _)
SortByScore(sorted, rest) ==
    IF rest = <<>> THEN sorted
    ELSE SortByScore(InsertStable(sorted, Head(rest)), Tail(rest))

\* lines 199-203: exact_matches
ExactMatches(target_upper, available) ==
    Take(FilterAssets(available, target_upper, TRUE), HARD_LIMIT)

\* lines 213-236: partial_matches, scored and sorted
PartialMatches(target_upper, available) ==
    LET others == FilterAssets(available, target_upper, FALSE)
    IN  SortByScore(<<>>, [i \in 1..Len(others) |-> ScoreAsset(target_upper, others[i])])

\* the fuzzy phase panics: there is an asset to score and scoring it panics
FuzzyPanics(target_upper, available) ==
    /\ ExactMatches(target_upper, available) = <<>>
    /\ FilterAssets(available, target_upper, FALSE) # <<>>
    /\ ScorePanics(target_upper)

\* lines 194-246.  phase: which return produced the result; panics: the
\* call ends in a panic and returns nothing
find_similar_assets(target_arg, available, limit_arg) ==
    LET target_upper == to_uppercase(target_arg)
        exact_matches == ExactMatches(target_upper, available)
        remaining_slots == Min(limit_arg, HARD_LIMIT)
        sorted == PartialMatches(target_upper, available)
        best == Take(sorted, remaining_slots)
    IN  IF exact_matches # <<>>
        THEN [phase |-> "substring", panics |-> FALSE,
              partial_matches |-> <<>>, result |-> exact_matches]
        ELSE IF FuzzyPanics(target_upper, available)
        THEN [phase |-> "fuzzy", panics |-> TRUE,
              partial_matches |-> <<>>, result |-> <<>>]
        ELSE [phase |-> "fuzzy", panics |-> FALSE,
              partial_matches |-> sorted,
              result |-> exact_matches \o [i \in 1..Len(best) |-> best[i][2]]]

----------------------------------------------------------------------------
(* Calls of find_similar_assets on the inputs of the model *)

MaxSuggestCatalog == 2
MaxLimit == 2

\* catalogs longer than HARD_LIMIT: two entries in turn
LongCatalogs ==
    {[i \in 1..n |-> IF i % 2 = 1 THEN e1 ELSE e2] :
        n \in {HARD_LIMIT + 1, HARD_LIMIT + 2},
        e1 \in {<<"A", "b">>, <<"é">>}, e2 \in {<<"b">>}}
SuggestCatalogs == SeqsUpTo(SuggestEntries, MaxSuggestCatalog) \cup LongCatalogs
Limits == 0..MaxLimit \cup {HARD_LIMIT + 1}

GIdle ==
    /\ pc = "idle"
    /\ output = [path |-> "", lower_ext |-> "", parent_exists |-> FALSE]
    /\ random = None
    /\ assets = None
    /\ fallback_period = 60
    /\ percent_change = 10
    /\ available_assets = <<>>
    /\ requested_assets = <<>>
    /\ examined = 0
    /\ selected_assets = <<>>
    /\ stdout = <<>>
    /\ config_map = None
    /\ written = None
    /\ fetches = 0
    /\ catalog = None

SuggestInit ==
    /\ GIdle
    /\ command = "none"
    /\ CIdle
    /\ fsa_pc = "call"
    /\ target \in Queries
    /\ fsa_assets \in SuggestCatalogs
    /\ limit \in Limits
    /\ partial_matches = <<>>
    /\ fsa_result = <<>>

\* lines 199-208: the substring phase found something and returns it
SubstringReturn ==
    /\ fsa_pc = "call"
    /\ ExactMatches(to_uppercase(target), fsa_assets) # <<>>
    /\ LET r == find_similar_assets(target, fsa_assets, limit)
       IN  /\ r.phase = "substring"
           /\ fsa_result' = r.result
           /\ partial_matches' = r.partial_matches
    /\ fsa_pc' = "returned"
    /\ UNCHANGED <<gvars, cvars, hasher, target, fsa_assets, limit>>

\* lines 210-245: the fuzzy phase scores, sorts and returns
FuzzyReturn ==
    /\ fsa_pc = "call"
    /\ ExactMatches(to_uppercase(target), fsa_assets) = <<>>
    /\ ~FuzzyPanics(to_uppercase(target), fsa_assets)
    /\ LET r == find_similar_assets(target, fsa_assets, limit)
       IN  /\ r.phase = "fuzzy" /\ ~r.panics
           /\ fsa_result' = r.result
           /\ partial_matches' = r.partial_matches
    /\ fsa_pc' = "returned"
    /\ UNCHANGED <<gvars, cvars, hasher, target, fsa_assets, limit>>

\* line 227: the fuzzy phase panics while scoring the first asset
FuzzyPanic ==
    /\ fsa_pc = "call"
    /\ FuzzyPanics(to_uppercase(target), fsa_assets)
    /\ find_similar_assets(target, fsa_assets, limit).panics
    /\ fsa_pc' = "panicked"
    /\ UNCHANGED <<gvars, cvars, hasher, target, fsa_assets, limit, partial_matches, fsa_result>>

SuggestNext ==
    \/ SubstringReturn
    \/ FuzzyReturn
    \/ FuzzyPanic

SuggestSpec == SuggestInit /\ [][SuggestNext]_vars

----------------------------------------------------------------------------
(* Commands::CheckAssets *)

\* the inputs of the model
CheckItems == {<<"A">>, <<"b">>, <<" ", "b", "é">>, <<"Z">>}
CheckLists ==
    {Join(items) : items \in SeqsUpTo(CheckItems, MaxExplicit) \ {<<>>}}
CheckCatalogs == SeqsUpTo({<<"A">>, <<"b">>}, MaxCatalog)

\* the variables of generate-config at rest, main at the given position
GRest(position) ==
    /\ pc = position
    /\ output = [path |-> "", lower_ext |-> "", parent_exists |-> FALSE]
    /\ random = None
    /\ assets = None
    /\ fallback_period = 60
    /\ percent_change = 10
    /\ available_assets = <<>>
    /\ requested_assets = <<>>
    /\ examined = 0
    /\ selected_assets = <<>>
    /\ stdout = <<>>
    /\ config_map = None
    /\ written = None
    /\ fetches = 0
    /\ catalog = None

CheckAssetsInit ==
    /\ command = "check-assets"
    /\ GRest("ca_load_config")
    /\ arg_assets \in CheckLists
    /\ checked = 0
    /\ known = None
    /\ has_token = FALSE
    /\ failed = FALSE
    /\ invalid_assets = <<>>
    /\ similar_calls = <<>>
    /\ hasher = None

\* lines 426-427 and 486
CheckAssetsLoadConfig ==
    /\ pc = "ca_load_config"
    /\ \E auth_token \in {None, Some("token")} :
          IF IsSome(auth_token)
          THEN /\ pc' = "ca_fetch"
               /\ has_token' = TRUE
               /\ UNCHANGED stdout
          ELSE /\ Println([kind |-> "NoToken"])
               /\ pc' = "done"
               /\ UNCHANGED has_token
    /\ UNCHANGED <<output, random, assets, fallback_period, percent_change,
                   available_assets, requested_assets, examined, selected_assets,
                   config_map, written, fetches, catalog>>
    /\ UNCHANGED <<svars, hasher, command, arg_assets, checked, known, failed,
                   invalid_assets, similar_calls>>

\* lines 429-451 and 476-484: the command's own request; the catalog is
\* kept in upper case
CheckAssetsFetch ==
    /\ pc = "ca_fetch"
    /\ \E r \in {[outcome |-> o, value |-> <<>>] :
                    o \in {"request", "status", "body", "format"}}
                \cup {[outcome |-> "ok", value |-> c] : c \in CheckCatalogs} :
          CASE r.outcome = "request" ->
                 /\ Println([kind |-> "RequestError"])
                 /\ pc' = "done"
                 /\ UNCHANGED known
            [] r.outcome = "status" ->
                 /\ Println([kind |-> "StatusError"])
                 /\ pc' = "done"
                 /\ UNCHANGED known
            [] r.outcome = "body" ->
                 /\ pc' = "panicked"
                 /\ UNCHANGED <<known, stdout>>
            [] r.outcome = "format" ->
                 /\ pc' = "done"
                 /\ UNCHANGED <<known, stdout>>
            [] r.outcome = "ok" ->
                 /\ known' = Some([i \in 1..Len(r.value) |-> to_uppercase(r.value[i])])
                 /\ Println([kind |-> "AssetAvailability"])
                 /\ pc' = "ca_loop"
    /\ UNCHANGED <<output, random, assets, fallback_period, percent_change,
                   available_assets, requested_assets, examined, selected_assets,
                   config_map, written, fetches, catalog>>
    /\ UNCHANGED <<svars, hasher, command, arg_assets, checked, has_token, failed,
                   invalid_assets, similar_calls>>

\* CheckAssetsStep without the similarity search, as in generate-config
CheckAssetsStepNoSearch ==
    /\ pc = "ca_loop"
    /\ LET items == RequestedAssets(arg_assets)
       IN  IF checked = Len(items)
           THEN /\ pc' = "done"
                /\ IF failed THEN Println([kind |-> "Note"]) ELSE UNCHANGED stdout
                /\ UNCHANGED <<checked, failed, similar_calls>>
           ELSE LET asset == items[checked + 1]
                IN  /\ checked' = checked + 1
                    /\ pc' = "ca_loop"
                    /\ UNCHANGED similar_calls
                    /\ IF Contains(Unwrap(known), to_uppercase(asset))
                       THEN /\ Println([kind |-> "Available", asset |-> to_uppercase(asset)])
                            /\ UNCHANGED failed
                       ELSE /\ failed' = TRUE
                            /\ Println([kind |-> "Unavailable",
                                        asset |-> to_uppercase(asset),
                                        similar |-> <<>>])
    /\ UNCHANGED <<output, random, assets, fallback_period, percent_change,
                   available_assets, requested_assets, examined, selected_assets,
                   config_map, written, fetches, catalog>>
    /\ UNCHANGED <<svars, hasher, command, arg_assets, known, has_token,
                   invalid_assets>>

\* lines 453-475: one symbol of the loop, or the note after it; a symbol
\* whose lookup fails is handed to find_similar_assets with limit 3, which
\* may panic
CheckAssetsStep ==
    /\ pc = "ca_loop"
    /\ LET items == RequestedAssets(arg_assets)
       IN  IF checked = Len(items)
           THEN /\ pc' = "done"
                /\ IF failed THEN Println([kind |-> "Note"]) ELSE UNCHANGED stdout
                /\ UNCHANGED <<checked, failed, similar_calls>>
           ELSE LET asset == items[checked + 1]
                IN  /\ checked' = checked + 1
                    /\ IF Contains(Unwrap(known), to_uppercase(asset))
                       THEN /\ Println([kind |-> "Available", asset |-> to_uppercase(asset)])
                            /\ pc' = "ca_loop"
                            /\ UNCHANGED <<failed, similar_calls>>
                       ELSE LET similar == find_similar_assets(asset, Unwrap(known), 3)
                            IN  /\ failed' = TRUE
                                /\ similar_calls' = Append(similar_calls, asset)
                                /\ IF similar.panics
                                   THEN /\ pc' = "panicked"
                                        /\ UNCHANGED stdout
                                   ELSE /\ pc' = "ca_loop"
                                        /\ Println([kind |-> "Unavailable",
                                                    asset |-> IF similar.result # <<>>
                                                              THEN asset
                                                              ELSE to_uppercase(asset),
                                                    similar |-> similar.result])
    /\ UNCHANGED <<output, random, assets, fallback_period, percent_change,
                   available_assets, requested_assets, examined, selected_assets,
                   config_map, written, fetches, catalog>>
    /\ UNCHANGED <<svars, hasher, command, arg_assets, known, has_token,
                   invalid_assets>>


----------------------------------------------------------------------------
(* Commands::GetEncodedAssets *)

\* the inputs of the model
EncodeItems == {<<"A">>, <<" ", "b", "é">>, <<>>}
EncodeLists ==
    {Join(items) : items \in SeqsUpTo(EncodeItems, MaxExplicit) \ {<<>>}}
EncodeCatalogs == {<<>>, <<<<"A">>>>}

GetEncodedInit ==
    /\ command = "get-encoded"
    /\ GRest("ge_fetch")
    /\ arg_assets \in EncodeLists
    /\ checked = 0
    /\ known = None
    /\ has_token = FALSE
    /\ failed = FALSE
    /\ invalid_assets = <<>>
    /\ similar_calls = <<>>
    /\ hasher = None

\* lines 490-503: available_assets, when there is a token and the fetch
\* succeeds
GetEncodedFetch ==
    /\ pc = "ge_fetch"
    /\ \E auth_token \in {None, Some("token")} :
          IF IsSome(auth_token)
          THEN /\ has_token' = TRUE
               /\ fetches' = fetches + 1
               /\ \E r \in {[outcome |-> o, value |-> <<>>] : o \in {"err", "body"}}
                           \cup {[outcome |-> "ok", value |-> c] : c \in EncodeCatalogs} :
                     CASE r.outcome = "err" ->
                            /\ known' = None
                            /\ pc' = "ge_loop"
                       [] r.outcome = "body" ->
                            /\ pc' = "panicked"
                            /\ UNCHANGED known
                       [] r.outcome = "ok" ->
                            /\ known' = Some(r.value)
                            /\ pc' = "ge_loop"
          ELSE /\ has_token' = FALSE
               /\ known' = None
               /\ pc' = "ge_loop"
               /\ UNCHANGED fetches
    /\ UNCHANGED <<output, random, assets, fallback_period, percent_change,
                   available_assets, requested_assets, examined, selected_assets,
                   stdout, config_map, written, catalog>>
    /\ UNCHANGED <<svars, hasher, command, arg_assets, checked, failed,
                   invalid_assets, similar_calls>>

\* what one symbol of the loop leaves behind, given its encoding
GetEncodedRecord(asset_id, encoded) ==
    /\ checked' = checked + 1
    /\ Println([kind |-> "Encoded", asset_id |-> asset_id, encoded |-> encoded])
    /\ invalid_assets' = IF IsSome(known) /\ ~Contains(Unwrap(known), asset_id)
                         THEN Append(invalid_assets, asset_id)
                         ELSE invalid_assets
    /\ pc' = "ge_loop"
    /\ UNCHANGED <<output, random, assets, fallback_period, percent_change,
                   available_assets, requested_assets, examined, selected_assets,
                   config_map, written, fetches, catalog>>
    /\ UNCHANGED <<svars, command, arg_assets, known, has_token, failed,
                   similar_calls>>

\* GetEncodedStep with one hasher kept across the calls
GetEncodedStepSharedHasher ==
    /\ pc = "ge_loop"
    /\ checked < Len(RequestedAssets(arg_assets))
    /\ LET asset_id == RequestedAssets(arg_assets)[checked + 1]
           start == IF IsSome(hasher) THEN Unwrap(hasher) ELSE KeccakV256
           after == KeccakUpdate(start, AsBytes(asset_id))
       IN  /\ hasher' = Some(after)
           /\ GetEncodedRecord(asset_id, <<"0", "x">> \o HexEncode(KeccakFinalize(after)))

\* lines 505-515: one symbol of the loop; the call of
\* calculate_encoded_asset_id starts from a hasher of its own
GetEncodedStep ==
    /\ pc = "ge_loop"
    /\ checked < Len(RequestedAssets(arg_assets))
    /\ LET asset_id == RequestedAssets(arg_assets)[checked + 1]
       IN  /\ hasher' = Some(KeccakUpdate(KeccakV256, AsBytes(asset_id)))
           /\ GetEncodedRecord(asset_id, calculate_encoded_asset_id(asset_id))

\* lines 517-530: the warnings after the loop
GetEncodedWarnings ==
    /\ pc = "ge_loop"
    /\ checked = Len(RequestedAssets(arg_assets))
    /\ stdout' = stdout
                 \o <<[kind |-> "Blank"]>>
                 \o (IF invalid_assets # <<>>
                     THEN <<[kind |-> "InvalidAssets", assets |-> invalid_assets]>>
                     ELSE <<>>)
                 \o (IF known = None
                     THEN <<[kind |-> "UnableToValidate", no_token |-> ~has_token]>>
                     ELSE <<>>)
    /\ pc' = "done"
    /\ UNCHANGED <<output, random, assets, fallback_period, percent_change,
                   available_assets, requested_assets, examined, selected_assets,
                   config_map, written, fetches, catalog>>
    /\ UNCHANGED <<svars, hasher, command, arg_assets, checked, known, has_token,
                   failed, invalid_assets, similar_calls>>

----------------------------------------------------------------------------
(* main: one command per run *)

Init ==
    /\ SIdle
    /\ \/ command = "generate-config" /\ GInit /\ CIdle
       \/ CheckAssetsInit
       \/ GetEncodedInit

Next ==
    \/ ValidateOutputPath
    \/ LoadConfig
    \/ GetAvailableAssets
    \/ ExplicitStep
    \/ RandomFill
    \/ EmptyCheck
    \/ Assemble
    \/ WriteAndReport
    \/ CheckAssetsLoadConfig
    \/ CheckAssetsFetch
    \/ CheckAssetsStep
    \/ GetEncodedFetch
    \/ GetEncodedStep
    \/ GetEncodedWarnings

Spec == Init /\ [][Next]_vars

----------------------------------------------------------------------------
(* Properties of find_similar_assets *)

QueryUpper == to_uppercase(target)
EntryUpper(i) == to_uppercase(fsa_assets[i])
\* the catalog positions whose uppercased entry contains the uppercased query
Hits == {i \in 1..Len(fsa_assets) : StrContains(EntryUpper(i), QueryUpper)}
SubstringHit == Hits # {}
\* the k-th smallest member of a set of positions
NthOf(S, k) == CHOOSE i \in S : Cardinality({j \in S : j <= i}) = k

\* the final score the fuzzy phase is described to give the entry at
\* position i (the query's length is the length the code measures: bytes)
DescribedScore(i) ==
    jaro_winkler(QueryUpper, EntryUpper(i))
    + (IF StartsWith(EntryUpper(i), QueryUpper) THEN Tenths(3)
       ELSE IF EndsWith(EntryUpper(i), QueryUpper) THEN Tenths(2)
       ELSE 0)
    + (IF ByteLen(QueryUpper) >= 3
          /\ StrContains(EntryUpper(i), SubSeq(QueryUpper, 1, Len(QueryUpper) - 1))
       THEN Tenths(1)
       ELSE 0)

\* the place of position i when the catalog is ranked by descending
\* described score, equal scores in catalog order
RankOf(i) ==
    1 + Cardinality({j \in 1..Len(fsa_assets) :
                        \/ DescribedScore(j) > DescribedScore(i)
                        \/ DescribedScore(j) = DescribedScore(i) /\ j < i})
PositionRanked(r) == CHOOSE i \in 1..Len(fsa_assets) : RankOf(i) = r

\* every catalog entry has its described score in partial_matches
ScoresAsDescribed ==
    /\ Len(partial_matches) = Len(fsa_assets)
    /\ \A i \in 1..Len(fsa_assets) :
          Count(partial_matches, <<DescribedScore(i), fsa_assets[i]>>)
              = Cardinality({j \in 1..Len(fsa_assets) :
                                /\ fsa_assets[j] = fsa_assets[i]
                                /\ DescribedScore(j) = DescribedScore(i)})

\* the result is the top min(limit, HARD_LIMIT) of the ranking
ResultIsTopRanked ==
    LET k == Min(Min(limit, HARD_LIMIT), Len(fsa_assets))
    IN  /\ Len(fsa_result) = k
        /\ \A r \in 1..k : fsa_result[r] = fsa_assets[PositionRanked(r)]

\* C7 (as claimed): every returned sequence has length at most
\* min(limit, HARD_LIMIT).
C7_AtMostMinLimit ==
    fsa_pc = "returned" => Len(fsa_result) <= Min(limit, HARD_LIMIT)

\* C7 (amended): every returned sequence has length at most HARD_LIMIT, and
\* at most min(limit, HARD_LIMIT) when no catalog entry contains the query
\* (the fuzzy phase produced it).
C7_LengthBounds ==
    fsa_pc = "returned" =>
        /\ Len(fsa_result) <= HARD_LIMIT
        /\ ~SubstringHit => Len(fsa_result) <= Min(limit, HARD_LIMIT)

\* C7 witness: the substring phase returned HARD_LIMIT entries of a longer
\* catalog under a smaller limit
C7_Witness ==
    /\ fsa_pc = "returned"
    /\ SubstringHit
    /\ Cardinality(Hits) > HARD_LIMIT
    /\ limit < HARD_LIMIT
    /\ Len(fsa_result) = HARD_LIMIT

\* C8: when some catalog entry contains the query case-insensitively, the
\* call returns exactly the first up-to-HARD_LIMIT such entries, in catalog
\* order, and nothing else.
C8_SubstringPhase ==
    (fsa_pc # "call" /\ SubstringHit) =>
        /\ fsa_pc = "returned"
        /\ Len(fsa_result) = Min(Cardinality(Hits), HARD_LIMIT)
        /\ \A k \in 1..Len(fsa_result) : fsa_result[k] = fsa_assets[NthOf(Hits, k)]

\* C8 witness: one entry of two contains the query, in another case, and it
\* alone is returned although the limit is 2
C8_Witness ==
    /\ fsa_pc = "returned"
    /\ limit = 2
    /\ Len(fsa_assets) = 2
    /\ Cardinality(Hits) = 1
    /\ \E i \in Hits : ~StrContains(fsa_assets[i], target)
    /\ Len(fsa_result) = 1

\* C9 (as claimed): when no catalog entry contains the query, every catalog
\* entry gets the final score base + 0.3 (prefix) or else + 0.2 (suffix),
\* and + 0.1 when the query is at least 3 long and the entry contains the
\* query without its last character.
C9_FuzzyScores ==
    (fsa_pc # "call" /\ ~SubstringHit) =>
        (fsa_pc = "returned" /\ ScoresAsDescribed)

\* C10 (as claimed): when no catalog entry contains the query, the call
\* returns the top min(limit, HARD_LIMIT) entries by descending final
\* score, equal scores in catalog order.
C10_TopByScore ==
    (fsa_pc # "call" /\ ~SubstringHit) =>
        (fsa_pc = "returned" /\ ResultIsTopRanked)

\* What C9 and C10 describe does hold of every call that returns.
ReturnedFuzzyAsDescribed ==
    (fsa_pc = "returned" /\ ~SubstringHit) =>
        (ScoresAsDescribed /\ ResultIsTopRanked)

\* a returned fuzzy call in which the +0.1 boost separated two entries and
\* the better one, later in the catalog, came first
ReturnedFuzzyWitness ==
    /\ fsa_pc = "returned"
    /\ ~SubstringHit
    /\ Len(fsa_assets) = 2
    /\ limit = 2
    /\ fsa_result = <<fsa_assets[2], fsa_assets[1]>>
    /\ ByteLen(QueryUpper) >= 3
    /\ StrContains(EntryUpper(2), SubSeq(QueryUpper, 1, Len(QueryUpper) - 1))

\* C11 (as claimed): a call never ends in a panic, whatever the query, the
\* catalog and the limit, and for an empty catalog it returns the empty
\* sequence.
C11_NeverFails ==
    /\ fsa_pc # "panicked"
    /\ (fsa_pc # "call" /\ fsa_assets = <<>>) =>
           (fsa_pc = "returned" /\ fsa_result = <<>>)

----------------------------------------------------------------------------
(* Properties of the config artifact *)

Keys(m) == [i \in 1..Len(m) |-> m[i].key]

\* the arrangements of a sequence in every order
PermutationsOf(v) ==
    {[i \in 1..Len(v) |-> v[p[i]]] : p \in InjectiveSeqs(Len(v), Len(v))}

\* what the run holds as its artifact: the map, and the file once written
Artifacts ==
    (IF IsSome(config_map) THEN {Unwrap(config_map)} ELSE {})
    \cup (IF IsSome(written) THEN {Unwrap(written).assets} ELSE {})

\* C12: every config artifact is non-empty, each of its keys is a symbol
\* of the fetched catalog, and each entry has its key as asset_id, the
\* encoding of that asset_id as encoded_asset_id, and the caller's fallback
\* period and percent-change threshold.
C12_ArtifactEntries ==
    \A m \in Artifacts :
        /\ m # <<>>
        /\ \A i \in 1..Len(m) :
              /\ Contains(Unwrap(catalog), m[i].key)
              /\ m[i].value.asset_id = m[i].key
              /\ m[i].value.encoded_asset_id = calculate_encoded_asset_id(m[i].value.asset_id)
              /\ m[i].value.fallback_period_sec = fallback_period
              /\ m[i].value.percent_change_threshold = percent_change

\* C12 witness: a written artifact of two entries under the non-default
\* scalars
C12_Witness ==
    /\ pc = "done"
    /\ IsSome(written)
    /\ Len(Unwrap(written).assets) = 2
    /\ fallback_period = 30
    /\ percent_change = 25

\* C13: the artifact that assemble leaves is the map that every
\* reordering of the selection yields under the same scalars, and its keys
\* iterate in strictly ascending order of their bytes.
C13_OrderIndependent ==
    pc = "write" =>
        LET m == Unwrap(config_map) IN
        /\ \A perm \in PermutationsOf(selected_assets) :
              BuildConfigMap(<<>>, perm, fallback_period, percent_change) = m
        /\ \A i \in 1..(Len(m) - 1) : BytesLess(AsBytes(m[i].key), AsBytes(m[i + 1].key))

\* C13 witness: assemble has turned the selection B, A into the keys A, B
C13_Witness ==
    /\ pc = "write"
    /\ selected_assets = <<<<"B">>, <<"A">>>>
    /\ Keys(Unwrap(config_map)) = <<<<"A">>, <<"B">>>>

\* C17 (as claimed): the success message is printed only in runs whose
\* write of the output file succeeded.
C17_SuccessOnlyAfterWrite ==
    Printed("Success") => IsSome(written)

----------------------------------------------------------------------------
(* Properties of main across the commands *)

\* check-assets: the symbols examined so far whose lookup failed, in order
FailedLookups ==
    SelectSeq(Prefix(RequestedAssets(arg_assets), checked),
              LAMBDA a : to_uppercase(a) \notin Range(Unwrap(known)))

\* C14 (as claimed): every symbol whose lookup against the catalog failed,
\* in generate-config or in check-assets, had the similarity search invoked
\* for it, and a run that reached the assembly never invoked it.
C14_SearchOnEveryFailedLookup ==
    /\ \A i \in 1..Len(stdout) :
          stdout[i].kind = "UnknownAsset" => Contains(similar_calls, stdout[i].asset)
    /\ command = "check-assets" =>
          \A a \in Range(FailedLookups) : Contains(similar_calls, a)
    /\ PlanSucceeded => similar_calls = <<>>

\* C14 (amended): check-assets invokes the similarity search for exactly the
\* symbols whose lookup failed, in their order; generate-config and
\* get-encoded never invoke it, whether or not a lookup failed.
C14_SearchOnlyInCheckAssets ==
    /\ command = "check-assets" => similar_calls = FailedLookups
    /\ command # "check-assets" => similar_calls = <<>>

\* C14 witness: check-assets has finished two symbols, one available and
\* one searched for
C14_Witness ==
    /\ command = "check-assets"
    /\ pc = "done"
    /\ checked = 2
    /\ Printed("Available")
    /\ Len(similar_calls) = 1

\* generate-config: get_available_assets returned an error
FetchFailed ==
    /\ command = "generate-config"
    /\ Contains(stdout, [kind |-> "Error", text |-> "fetch"])

\* C15: in generate-config the catalog is fetched at most once, and after a
\* failed fetch the run is over with that one fetch, no catalog, nothing
\* planned, nothing assembled and no file written.
C15_FetchFailureTerminal ==
    /\ command = "generate-config" => fetches <= 1
    /\ (FetchFailed \/ (command = "generate-config" /\ pc = "panicked")) =>
          /\ FetchFailed => pc = "done"
          /\ fetches = 1
          /\ catalog = None
          /\ available_assets = <<>>
          /\ requested_assets = <<>>
          /\ examined = 0
          /\ selected_assets = <<>>
          /\ config_map = None
          /\ written = None
          /\ ~Printed("Success")

\* C15 witness: the fetch failed in a run asked for explicit and random
\* symbols
C15_Witness ==
    /\ FetchFailed
    /\ pc = "done"
    /\ IsSome(assets)
    /\ IsSome(random)
    /\ Unwrap(random) > 0

\* the (input, encoding) pairs a run holds: the printed lines of
\* get-encoded and the entries of the config map
EncodedPairs ==
    {<<stdout[i].asset_id, stdout[i].encoded>> :
        i \in {j \in 1..Len(stdout) : stdout[j].kind = "Encoded"}}
    \cup (IF IsSome(config_map)
          THEN {<<e.value.asset_id, e.value.encoded_asset_id>> :
                   e \in Range(Unwrap(config_map))}
          ELSE {})

LowerHexDigits ==
    {"0", "1", "2", "3", "4", "5", "6", "7", "8", "9", "a", "b", "c", "d", "e", "f"}

\* C16: every encoding is 66 characters long, "0x" followed by 64 lowercase
\* hexadecimal digits, and two encodings of the same input are the same
\* string.
C16_EncodedFormat ==
    \A p \in EncodedPairs :
        /\ Len(p[2]) = 66
        /\ p[2][1] = "0"
        /\ p[2][2] = "x"
        /\ \A j \in 3..66 : p[2][j] \in LowerHexDigits
        /\ \A q \in EncodedPairs : q[1] = p[1] => q[2] = p[2]

\* C16 witness: get-encoded has encoded the same non-ASCII symbol
\* twice in a row
C16_Witness ==
    /\ command = "get-encoded"
    /\ pc = "done"
    /\ Len(stdout) >= 2
    /\ stdout[1].kind = "Encoded"
    /\ stdout[2].kind = "Encoded"
    /\ stdout[1].asset_id = <<"b", "é">>
    /\ stdout[2].asset_id = <<"b", "é">>

====
